---- MODULE Spec2Model ----
(***************************************************************************)
(* twang: the Signal waveform algebra of src/src/sig.rs.                   *)
(*                                                                         *)
(* A Signal is one f64.  In the first three specifications a Signal is an  *)
(* integer number of grid steps of size 1/SCALE (so 1.0 is ONE == SCALE    *)
(* steps); on such a grid the additions, subtractions, remainders and      *)
(* comparisons the operations perform are exact, and the operators below   *)
(* compute them as the code does.  clip_soft needs exp and two divisions,  *)
(* which round: it is modelled further down on a small binary floating     *)
(* point format with IEEE round-to-nearest-even and a NaN.                 *)
(***************************************************************************)
EXTENDS Integers, FiniteSets

VARIABLES op, input, operand, sig, mono,
          phase, truePhase, amount,
          x, step, duty, out, flips,
          clipSelf, clipVolume, clipOut

chainVars == <<op, input, operand, sig, mono>>
phaseVars == <<phase, truePhase, amount>>
sweepVars == <<x, step, duty, out, flips>>
clipVars == <<clipSelf, clipVolume, clipOut>>
vars == <<op, input, operand, sig, mono, phase, truePhase, amount,
          x, step, duty, out, flips, clipSelf, clipVolume, clipOut>>

(* Grid steps per unit: the Signal 1.0 is SCALE steps. *)
SCALE == 10
(* Largest magnitude, in whole units, of a Signal inside a chain. *)
MaxSig == 3
(* Largest magnitude, in whole units, of an operand or a numeral. *)
MaxArg == 2
(* Largest magnitude, in whole units, of the accumulated true phase. *)
MaxPhase == 5

ONE == SCALE
TWO == 2 * SCALE
Signals == (-(MaxSig * SCALE))..(MaxSig * SCALE)
Numerals == (-(MaxArg * SCALE))..(MaxArg * SCALE)

(***************************************************************************)
(* f64 primitives on grid values.                                          *)
(***************************************************************************)
(* f64 `%`: the remainder of truncated division, with the dividend's sign. *)
F64Rem(a, m) == IF a >= 0 THEN a % m ELSE -((-a) % m)

F64Abs(a) == IF a < 0 THEN -a ELSE a

F64Min(a, b) == IF a < b THEN a ELSE b

F64Max(a, b) == IF a > b THEN a ELSE b

(* f64::signum: 1.0 for a positive number and for +0.0, -1.0 for a negative *)
(* one.  The grid has one zero, +0.0: a difference of two equal finite      *)
(* numbers is +0.0.                                                         *)
F64Signum(a) == IF a < 0 THEN -ONE ELSE ONE

(***************************************************************************)
(* The Signal operations.                                                  *)
(***************************************************************************)
from(signal) == signal

triangle(self) == F64Abs(self) * 2 - ONE

(* A shift that keeps the raw remainder, without the two corrections. *)
shift_nowrap(self, amt) == F64Rem(self + amt, TWO)

(* A shift that resets to the opposite end instead of wrapping by 2. *)
shift_reset(self, amt) ==
    LET r == F64Rem(self + amt, TWO)
    IN  IF r < -ONE THEN ONE ELSE IF r > ONE THEN -ONE ELSE r

shift(self, amt) ==
    LET r == F64Rem(self + amt, TWO)
    IN  IF r < -ONE THEN r + TWO
        ELSE IF r > ONE THEN r - TWO
        ELSE r

(* A pulse whose difference is taken the other way round. *)
pulse_swapped(self, half_duty) ==
    LET phase_shifted == shift(self, half_duty)
    IN  F64Signum(phase_shifted - self)

pulse(self, half_duty) ==
    LET phase_shifted == shift(self, half_duty)
    IN  F64Signum(self - phase_shifted)

(* The product self * volume, when it lies on the grid. *)
gain(self, volume) == (self * volume) \div SCALE

invert(self) == -self

abs(self) == F64Abs(self)

min(self, limit) == F64Min(self, limit)

(* sig.rs line 81 calls f64::min here too. *)
max(self, limit) == F64Min(self, limit)

(* A gate that also passes a signal whose magnitude equals the limit. *)
gate_closed(self, limit) ==
    LET pass == IF abs(self) >= limit THEN 1 ELSE 0
    IN  self * pass

gate(self, limit) ==
    LET pass == IF abs(self) > limit THEN 1 ELSE 0
    IN  self * pass

clamp(self) == max(min(self, ONE), -ONE)

(* A conversion that goes through Signal::clamp. *)
to_mono_by_clamp(self) == clamp(self)

(* Mono::new(Ch64::new(v)) holds the sample v it is given; v is computed *)
(* with f64::min and f64::max, not with Signal::min and Signal::max.     *)
to_mono(self) == F64Max(F64Min(self, ONE), -ONE)

(***************************************************************************)
(* A binary floating point format for clip_soft: a finite value is an      *)
(* integer number of steps of 2^-FracBits (the smallest subnormal) with at *)
(* most Precision significant bits; every operation rounds its exact       *)
(* result to the nearest such value, ties to even, as f64 does with 53     *)
(* bits.  c is the class of a value: "fin", "inf" (v its sign) or "nan".   *)
(***************************************************************************)
(* Significant bits of a float (f64: 53). *)
Precision == 4
(* The smallest positive float is 2^-FracBits (f64: 2^-1074). *)
FracBits == 8
(* Largest magnitude, in whole units, of a clip_soft volume. *)
MaxVolume == 2

RECURSIVE Pow2(_)
Pow2(n) == IF n = 0 THEN 1 ELSE 2 * Pow2(n - 1)

FOne == Pow2(FracBits)

Fin(v) == [c |-> "fin", v |-> v]
Inf(sign) == [c |-> "inf", v |-> sign]
NaN == [c |-> "nan", v |-> 0]

(* n / d (n >= 0, d > 0) rounded to the nearest integer, ties to even. *)
NearestEven(n, d) ==
    LET q == n \div d
        r == n % d
    IN  IF 2 * r < d THEN q
        ELSE IF 2 * r > d THEN q + 1
        ELSE IF q % 2 = 0 THEN q ELSE q + 1

(* The spacing of the floats around n / d: the least power of two that   *)
(* leaves at most Precision bits.                                        *)
RECURSIVE Ulp(_, _, _)
Ulp(n, d, q) == IF n \div (d * q) < Pow2(Precision) THEN q ELSE Ulp(n, d, 2 * q)

(* The float nearest to the exact quotient n / d (d > 0), in steps. *)
Round(n, d) ==
    LET m == IF n < 0 THEN -n ELSE n
        q == Ulp(m, d, 1)
        r == NearestEven(m, d * q) * q
    IN  IF n < 0 THEN -r ELSE r

Sign(v) == IF v < 0 THEN -1 ELSE 1

FNeg(a) == IF a.c = "nan" THEN NaN ELSE [c |-> a.c, v |-> -a.v]

FMul(a, b) ==
    IF a.c = "fin" /\ b.c = "fin" THEN Fin(Round(a.v * b.v, FOne))
    ELSE IF a.c = "nan" \/ b.c = "nan" \/ a.v = 0 \/ b.v = 0 THEN NaN
    ELSE Inf(Sign(a.v) * Sign(b.v))

FAdd(a, b) ==
    IF a.c = "fin" /\ b.c = "fin" THEN Fin(Round(a.v + b.v, 1))
    ELSE IF a.c = "nan" \/ b.c = "nan" THEN NaN
    ELSE IF a.c = "inf" /\ b.c = "inf" /\ a.v # b.v THEN NaN
    ELSE IF a.c = "inf" THEN a ELSE b

FSub(a, b) == FAdd(a, FNeg(b))

FDiv(a, b) ==
    IF a.c = "nan" \/ b.c = "nan" THEN NaN
    ELSE IF a.c = "inf" THEN (IF b.c = "inf" THEN NaN ELSE Inf(a.v * Sign(b.v)))
    ELSE IF b.c = "inf" THEN Fin(0)
    ELSE IF b.v = 0 THEN (IF a.v = 0 THEN NaN ELSE Inf(Sign(a.v)))
    ELSE Fin(Sign(b.v) * Round(a.v * FOne, Sign(b.v) * b.v))

(* exp by its power series, summed in steps of 2^-(FracBits + 8) until the *)
(* terms vanish, then rounded to a float.                                  *)
GuardBits == FracBits + 8

RECURSIVE ExpSeries(_, _, _, _)
ExpSeries(v, i, term, acc) ==
    IF term = 0 THEN acc
    ELSE ExpSeries(v, i + 1, (term * v) \div (FOne * (i + 1)), acc + term)

FExp(a) ==
    IF a.c = "nan" THEN NaN
    ELSE IF a.c = "inf" THEN (IF a.v < 0 THEN Fin(0) ELSE a)
    ELSE Fin(Round(ExpSeries(a.v, 0, Pow2(GuardBits), 0), Pow2(GuardBits - FracBits)))

(* The curve of clip_soft before its normalisation. *)
Sigmoid(self, vol) ==
    FSub(FDiv(Fin(2 * FOne), FAdd(Fin(FOne), FExp(FMul(self, FNeg(vol))))), Fin(FOne))

(* A clip_soft that leaves the normalisation out. *)
clip_soft_raw(self, vol) == Sigmoid(self, vol)

clip_soft(self, vol) == FDiv(Sigmoid(self, vol), Sigmoid(Fin(FOne), vol))

(* The finite floats of magnitude at most `most` steps. *)
Floats(most) == {v \in (-most)..most : Round(v, 1) = v}

(***************************************************************************)
(* Spec: one chain of Signal operations, from a numeral to the channel     *)
(* sample.  op, input and operand record the last call and sig its result. *)
(***************************************************************************)
ChainIdle == op = "from" /\ input = 0 /\ operand = 0 /\ sig = 0 /\ mono = 0

PhaseIdle == phase = 0 /\ truePhase = 0 /\ amount = 0
SweepIdle == x = 0 /\ step = 1 /\ duty = ONE /\ out = ONE /\ flips = 0

ClipIdle ==
    /\ clipSelf = Fin(0)
    /\ clipVolume = Fin(FOne)
    /\ clipOut = [c |-> "none", v |-> 0]

Init ==
    /\ op = "from"
    /\ input \in Numerals
    /\ operand = 0
    /\ sig = from(input)
    /\ mono = 0
    /\ PhaseIdle
    /\ SweepIdle
    /\ ClipIdle

Call(name, a, result) ==
    /\ op # "to_mono"
    /\ result \in Signals
    /\ op' = name
    /\ input' = sig
    /\ operand' = a
    /\ sig' = result
    /\ mono' = 0
    /\ UNCHANGED <<phaseVars, sweepVars, clipVars>>

From(signal) ==
    /\ op' = "from"
    /\ input' = signal
    /\ operand' = 0
    /\ sig' = from(signal)
    /\ mono' = 0
    /\ UNCHANGED <<phaseVars, sweepVars, clipVars>>

Triangle == Call("triangle", 0, triangle(sig))

Pulse(half_duty) == Call("pulse", half_duty, pulse(sig, half_duty))

Shift(amt) == Call("shift", amt, shift(sig, amt))

Gain(volume) ==
    /\ (sig * volume) % SCALE = 0
    /\ Call("gain", volume, gain(sig, volume))

Invert == Call("invert", 0, invert(sig))

Abs == Call("abs", 0, abs(sig))

Min(limit) == Call("min", limit, min(sig, limit))

Max(limit) == Call("max", limit, max(sig, limit))

Gate(limit) == Call("gate", limit, gate(sig, limit))

Clamp == Call("clamp", 0, clamp(sig))

ToMono ==
    /\ op # "to_mono"
    /\ op' = "to_mono"
    /\ input' = sig
    /\ operand' = 0
    /\ mono' = to_mono(sig)
    /\ UNCHANGED <<sig, phaseVars, sweepVars, clipVars>>

Next ==
    \/ \E signal \in Numerals : From(signal)
    \/ Triangle
    \/ \E half_duty \in Numerals : Pulse(half_duty)
    \/ \E amt \in Numerals : Shift(amt)
    \/ \E volume \in Numerals : Gain(volume)
    \/ Invert
    \/ Abs
    \/ \E limit \in Numerals : Min(limit)
    \/ \E limit \in Numerals : Max(limit)
    \/ \E limit \in Numerals : Gate(limit)
    \/ Clamp
    \/ ToMono

Spec == Init /\ [][Next]_vars

(***************************************************************************)
(* SpecPhase: a caller keeps a phase accumulator and advances it with      *)
(* shift.  truePhase is the unwrapped sum of the start and every amount.   *)
(***************************************************************************)
InitPhase ==
    /\ phase \in Numerals
    /\ truePhase = phase
    /\ amount = 0
    /\ ChainIdle
    /\ SweepIdle
    /\ ClipIdle

Advance(amt) ==
    /\ truePhase + amt \in (-(MaxPhase * SCALE))..(MaxPhase * SCALE)
    /\ phase' = shift(phase, amt)
    /\ truePhase' = truePhase + amt
    /\ amount' = amt
    /\ UNCHANGED <<chainVars, sweepVars, clipVars>>

NextPhase == \E amt \in Numerals : Advance(amt)

SpecPhase == InitPhase /\ [][NextPhase]_vars

(***************************************************************************)
(* SpecSweep: the per-sample call of examples/square.rs, fc.pulse(duty),   *)
(* on a sawtooth phase x that rises from -1 to 1 in equal steps.  flips    *)
(* counts the sign changes of the output since the sweep began.            *)
(***************************************************************************)
InitSweep ==
    /\ x = -ONE
    /\ step \in 1..ONE
    /\ duty \in 1..ONE
    /\ out = pulse(x, duty)
    /\ flips = 0
    /\ ChainIdle
    /\ PhaseIdle
    /\ ClipIdle

SweepDone == x + step > ONE

Sample ==
    /\ ~SweepDone
    /\ x' = x + step
    /\ out' = pulse(x', duty)
    /\ flips' = IF out' # out THEN flips + 1 ELSE flips
    /\ UNCHANGED <<step, duty, chainVars, phaseVars, clipVars>>

Restart(s, d) ==
    /\ SweepDone
    /\ x' = -ONE
    /\ step' = s
    /\ duty' = d
    /\ out' = pulse(x', d)
    /\ flips' = 0
    /\ UNCHANGED <<chainVars, phaseVars, clipVars>>

NextSweep ==
    \/ Sample
    \/ \E s \in 1..ONE, d \in 1..ONE : Restart(s, d)

SpecSweep == InitSweep /\ [][NextSweep]_vars

(***************************************************************************)
(* SpecClip: one call of clip_soft on a Signal in [-1, 1] and a volume.    *)
(***************************************************************************)
InitClip ==
    /\ clipSelf \in {Fin(v) : v \in Floats(FOne)}
    /\ clipVolume \in {Fin(v) : v \in Floats(MaxVolume * FOne)}
    /\ clipOut = [c |-> "none", v |-> 0]
    /\ ChainIdle
    /\ PhaseIdle
    /\ SweepIdle

ClipSoft ==
    /\ clipOut.c = "none"
    /\ clipOut' = clip_soft(clipSelf, clipVolume)
    /\ UNCHANGED <<clipSelf, clipVolume, chainVars, phaseVars, sweepVars>>

NextClip == ClipSoft

SpecClip == InitClip /\ [][NextClip]_vars

(***************************************************************************)
(* Properties.                                                             *)
(***************************************************************************)
(* The value clamp and to_mono are meant to produce. *)
Clamped(v) == IF v > ONE THEN ONE ELSE IF v < -ONE THEN -ONE ELSE v

(* C1, as stated: shift returns a value in the half-open range (-1, 1], *)
(* so -1 itself is never returned.                                      *)
C1_ShiftInHalfOpenRange ==
    op = "shift" => (-ONE < sig /\ sig <= ONE)

(* C1, amended: shift returns a value in the closed range [-1, 1], and *)
(* it returns -1 exactly when self + amount is a negative odd integer. *)
C1_ShiftInClosedRange ==
    op = "shift" =>
        /\ -ONE <= sig /\ sig <= ONE
        /\ sig = -ONE <=> (input + operand < 0 /\ (-(input + operand)) % TWO = ONE)

(* shift(-1, -2): self + amount is -3 and the result is -1. *)
C1_Witness ==
    op = "shift" /\ input + operand = -3 * ONE /\ sig = -ONE

(* C2: clamp returns a value in [-1, 1], and returns x itself when x is *)
(* already in [-1, 1].                                                  *)
C2_ClampInRangeAndIdentity ==
    op = "clamp" =>
        /\ -ONE <= sig /\ sig <= ONE
        /\ (-ONE <= input /\ input <= ONE) => sig = input

(* C3: max returns the larger of self and limit (at least both, equal to *)
(* one of them) and min returns the smaller.                             *)
C3_MaxIsMaximumMinIsMinimum ==
    /\ op = "max" =>
        (sig >= input /\ sig >= operand /\ sig \in {input, operand})
    /\ op = "min" =>
        (sig <= input /\ sig <= operand /\ sig \in {input, operand})

(* C4: on every Signal a chain produces, to_mono and clamp agree. *)
C4_ToMonoEqualsClamp ==
    to_mono(sig) = clamp(sig)

(* C5: the sample to_mono yields is in [-1, 1]: x itself when x is in   *)
(* [-1, 1], 1 when x > 1 and -1 when x < -1, whatever the chain before. *)
C5_ToMonoClamps ==
    op = "to_mono" =>
        /\ -ONE <= mono /\ mono <= ONE
        /\ mono = Clamped(input)

(* A chain has taken the Signal above 2, and to_mono yields 1. *)
C5_Witness ==
    op = "to_mono" /\ input > TWO /\ mono = ONE

(* C6: gate returns self when |self| > limit and 0 otherwise (so a      *)
(* magnitude equal to the limit is silenced), and gating the result     *)
(* again with the same limit changes nothing.                           *)
C6_GateStrictAndIdempotent ==
    op = "gate" =>
        /\ sig = (IF F64Abs(input) > operand THEN input ELSE 0)
        /\ gate(sig, operand) = sig

(* A non-zero Signal whose magnitude equals the limit is silenced. *)
C6_Witness ==
    op = "gate" /\ input # 0 /\ F64Abs(input) = operand /\ sig = 0

C9_PhaseIsTruePhaseModTwo ==
    (phase - truePhase) % TWO = 0

(* Negative amounts have taken the true phase two periods below the *)
(* accumulator.                                                     *)
C9_Witness ==
    amount < 0 /\ phase = truePhase + 2 * TWO

(* C7: with half_duty 1.0, as the phase rises from -1 to 1 the output is *)
(* -1 up to the midpoint 0 and +1 above it, so its sign has changed once *)
(* when the phase is above 0, not at all before, and once at the end of  *)
(* the sweep.                                                            *)
C7_SquareFlipsOnceAtMidpoint ==
    duty = ONE =>
        /\ out = (IF x <= 0 THEN -ONE ELSE ONE)
        /\ flips = (IF x <= 0 THEN 0 ELSE 1)
        /\ SweepDone => flips = 1

(* A whole sweep in the finest steps has ended with one sign change. *)
C7_Witness ==
    duty = ONE /\ step = 1 /\ x = ONE /\ SweepDone /\ flips = 1

(* C8, as stated: for every positive volume the normalising denominator *)
(* is non-zero, clip_soft(1.0, k) is exactly 1.0 and clip_soft(0.0, k)  *)
(* exactly 0.0.                                                         *)
C8_ClipSoftNormalisedForEveryPositiveVolume ==
    (clipOut.c # "none" /\ clipVolume.v > 0) =>
        /\ Sigmoid(Fin(FOne), clipVolume) # Fin(0)
        /\ clipSelf = Fin(FOne) => clipOut = Fin(FOne)
        /\ clipSelf = Fin(0) => clipOut = Fin(0)

(* C8, amended: for a positive volume whose normalising denominator   *)
(* evaluates to a non-zero float, clip_soft(1.0, k) is exactly 1.0    *)
(* and clip_soft(0.0, k) exactly 0.0; where the denominator evaluates *)
(* to 0 both are NaN.                                                 *)
C8_ClipSoftNormalisedWhereDenominatorNonZero ==
    (clipOut.c # "none" /\ clipVolume.v > 0) =>
        IF Sigmoid(Fin(FOne), clipVolume) # Fin(0)
        THEN /\ clipSelf = Fin(FOne) => clipOut = Fin(FOne)
             /\ clipSelf = Fin(0) => clipOut = Fin(0)
        ELSE clipSelf \in {Fin(FOne), Fin(0)} => clipOut = NaN

(* clip_soft(1.0, 1.0) has returned 1.0. *)
C8_Witness ==
    clipSelf = Fin(FOne) /\ clipVolume = Fin(FOne) /\ clipOut = Fin(FOne)

====
